---- MODULE Spec2Model ----
(***************************************************************************)
(* Model of the ai-coding-fe Streamlit front-end: the three API client     *)
(* functions (call_ocr_api, call_process_api, get_requests_data), the      *)
(* pages that call them, and the login gate.                               *)
(*                                                                         *)
(* Representation.  Python str values the code inspects character by      *)
(* character (file names, OCR text, the text to process) are sequences of  *)
(* one-character strings.  Strings the code only copies (status, error     *)
(* strings, request ids, raw bodies, exception texts, tokens) are TLA+     *)
(* strings.  Values of several Python types are tagged records and are     *)
(* only ever compared through their tag t.                                 *)
(*                                                                         *)
(* Two specifications:                                                     *)
(*   Spec     the program as the user drives it, one action per rerun of   *)
(*            main.py caused by a widget;                                  *)
(*   ApiSpec  the client functions called directly: Init draws the         *)
(*            arguments and the remote end's behaviour, one action per     *)
(*            function applies it.                                         *)
(***************************************************************************)
EXTENDS Integers, Sequences, FiniteSets, TLC

VARIABLES
    app_token,      \* auth.py APP_ACCESS_TOKEN ("" when the variable is unset)
    api_token,      \* AUTH_TOKEN of process_new_file.py / previous_requests.py
    authenticated,  \* st.session_state.authenticated
    page,           \* the sidebar selectbox: "process" or "previous"
    ocr_text,       \* st.session_state.ocr_text
    call,           \* the client call of the current rerun (or of ApiSpec)
    ui,             \* what the page code itself showed in the current rerun
    shown,          \* what main() drew in the current rerun: "none" before
                    \* the first run, "stopped", "login", "process", "previous"
    submitted       \* the token the login form submitted in the current
                    \* rerun, as <<token_input>>, or <<>> when none was

vars == <<app_token, api_token, authenticated, page, ocr_text, call, ui,
          shown, submitted>>

----------------------------------------------------------------------------
(* Bounds of the model *)

\* longest list of diagnoses, procedures or requests in a response body
MaxItems == 1
\* most dot-separated segments put in front of a file name's extension
MaxStem == 1

----------------------------------------------------------------------------
(* Character strings *)

LowerCase == {"a","b","c","d","e","f","g","i","j","m","n","p","t","w","x"}
UpperCase == {"A","B","C","D","E","F","G","I","J","M","N","P","T","W","X"}
Whitespace == {" ", "\t", "\n"}

\* str.lower() on one character
LowerChar(c) ==
    CASE c = "A" -> "a" [] c = "B" -> "b" [] c = "C" -> "c" [] c = "D" -> "d"
      [] c = "E" -> "e" [] c = "F" -> "f" [] c = "G" -> "g" [] c = "I" -> "i"
      [] c = "J" -> "j" [] c = "M" -> "m" [] c = "N" -> "n" [] c = "P" -> "p"
      [] c = "T" -> "t" [] c = "W" -> "w" [] c = "X" -> "x"
      [] OTHER -> c

\* str.lower()
Lower(s) == [i \in 1..Len(s) |-> LowerChar(s[i])]

\* str.split('.'): the list of the segments between the dots
RECURSIVE Split(_)
Split(s) ==
    IF \A i \in 1..Len(s) : s[i] # "."
    THEN <<s>>
    ELSE LET d == CHOOSE i \in 1..Len(s) :
                      s[i] = "." /\ \A j \in 1..(i-1) : s[j] # "."
         IN  <<SubSeq(s, 1, d - 1)>> \o Split(SubSeq(s, d + 1, Len(s)))

\* str.strip()
RECURSIVE Strip(_)
Strip(s) ==
    IF s = <<>> THEN s
    ELSE IF Head(s) \in Whitespace THEN Strip(Tail(s))
    ELSE IF s[Len(s)] \in Whitespace THEN Strip(SubSeq(s, 1, Len(s) - 1))
    ELSE s

\* truth value of a Python str
Truthy(s) == s # <<>>

----------------------------------------------------------------------------
(* get_mime_type *)

OctetStream == "application/octet-stream"

\* the dict mime_types of get_mime_type, as (key, value) pairs
mime_types ==
    { <<<<"p","d","f">>,     "application/pdf">>,
      <<<<"j","p","g">>,     "image/jpeg">>,
      <<<<"j","p","e","g">>, "image/jpeg">>,
      <<<<"p","n","g">>,     "image/png">>,
      <<<<"t","i","f","f">>, "image/tiff">>,
      <<<<"t","i","f">>,     "image/tiff">>,
      <<<<"g","i","f">>,     "image/gif">>,
      <<<<"w","e","b","p">>, "image/webp">>,
      <<<<"b","m","p">>,     "image/bmp">> }

\* dict.get(key, default)
DictGet(d, key, default) ==
    IF \E kv \in d : kv[1] = key
    THEN (CHOOSE kv \in d : kv[1] = key)[2]
    ELSE default

\* faulty variant: the extension is looked up without lower-casing the file name
get_mime_type_nolower(filename) ==
    LET parts == Split(filename)
    IN  DictGet(mime_types, parts[Len(parts)], OctetStream)

get_mime_type(filename) ==
    LET parts     == Split(Lower(filename))
        extension == parts[Len(parts)]
    IN  DictGet(mime_types, extension, OctetStream)

----------------------------------------------------------------------------
(* Python and JSON values *)

\* Python None
PyNone == [t |-> "none"]
\* a Python str that the code only copies
PyStr(s) == [t |-> "str", s |-> s]
\* a Python str that the code inspects (a sequence of characters)
PyText(c) == [t |-> "str", c |-> c]
\* a validated pydantic model instance
PyModel(m) == [t |-> "model", m |-> m]

\* JSON values of a response body
JAbsent == [t |-> "absent"]      \* the key is not in the object
JNull == [t |-> "null"]
JStr(s) == [t |-> "str", s |-> s]
JText(c) == [t |-> "str", c |-> c]
JNum(n) == [t |-> "num", n |-> n]
JInt(i) == [t |-> "int", i |-> i]
JArr(a) == [t |-> "arr", a |-> a]
JObj(o) == [t |-> "obj", o |-> o]
\* a body that is not JSON at all: response.json() raises on it
NotJson == [t |-> "notjson"]

\* data.get(key): the value under a key of a JSON object, JAbsent without it
Get(o, k) == IF k \in DOMAIN o THEN o[k] ELSE JAbsent

\* str(x) inside an f-string, for an Optional[str]
Fmt(x) == IF x.t = "none" THEN "None" ELSE x.s

----------------------------------------------------------------------------
(* models.py: pydantic validation.  Each validator gives the sequence of   *)
(* the errors a ValidationError would list (empty when the value is        *)
(* accepted).  Only type mismatches that every pydantic version rejects    *)
(* are drawn as inputs (an array or an object where a str, an int or a     *)
(* float is expected, a str where a list is expected).                     *)

FieldError(field, kind) == [field |-> field, kind |-> kind]

\* name: str = Field(...)
RequiredStr(o, k) ==
    LET v == Get(o, k)
    IN  IF v.t = "absent" THEN <<FieldError(k, "missing")>>
        ELSE IF v.t = "null" THEN <<FieldError(k, "none")>>
        ELSE IF v.t # "str" THEN <<FieldError(k, "type")>>
        ELSE <<>>

\* name: Optional[str] = Field(None)
OptionalStr(o, k) ==
    LET v == Get(o, k)
    IN  IF v.t \in {"absent", "null", "str"} THEN <<>>
        ELSE <<FieldError(k, "type")>>

\* name: Optional[int] = Field(None)
OptionalInt(o, k) ==
    LET v == Get(o, k)
    IN  IF v.t \in {"absent", "null", "int"} THEN <<>>
        ELSE <<FieldError(k, "type")>>

\* name: Optional[dict] = Field(None)
OptionalDict(o, k) ==
    LET v == Get(o, k)
    IN  IF v.t \in {"absent", "null", "obj"} THEN <<>>
        ELSE <<FieldError(k, "type")>>

\* name: float = Field(...)
RequiredFloat(o, k) ==
    LET v == Get(o, k)
    IN  IF v.t = "absent" THEN <<FieldError(k, "missing")>>
        ELSE IF v.t = "null" THEN <<FieldError(k, "none")>>
        ELSE IF v.t \notin {"num", "int"} THEN <<FieldError(k, "type")>>
        ELSE <<>>

\* the value an Optional field takes in the model instance
OptionalValue(o, k) ==
    LET v == Get(o, k)
    IN  IF v.t \in {"absent", "null"} THEN PyNone ELSE v

\* class Diagnosis / class Procedure (the two have the same fields)
DiagnosisErrors(o) ==
    RequiredStr(o, "original_text") \o RequiredStr(o, "english_translation")
      \o RequiredStr(o, "icd10_code") \o RequiredFloat(o, "confidence")
      \o OptionalStr(o, "chapter") \o OptionalStr(o, "reasoning")

\* class RequestData
RequestDataErrors(o) ==
    RequiredStr(o, "request_id") \o RequiredStr(o, "type")
      \o RequiredStr(o, "source") \o RequiredStr(o, "agent_id")
      \o RequiredStr(o, "status") \o RequiredStr(o, "created_at")
      \o OptionalStr(o, "reviewed_at") \o OptionalStr(o, "reviewer_id")
      \o OptionalStr(o, "reviewer_comments") \o OptionalDict(o, "input_data")
      \o OptionalDict(o, "output_data") \o OptionalDict(o, "approved_output")

\* name: List[Diagnosis] = Field(default_factory=list)
DiagnosisList(o, k) ==
    LET v == Get(o, k)
    IN  IF v.t = "absent" THEN <<>>
        ELSE IF v.t = "null" THEN <<FieldError(k, "none")>>
        ELSE IF v.t # "arr" THEN <<FieldError(k, "type")>>
        ELSE IF \E i \in 1..Len(v.a) :
                    v.a[i].t # "obj" \/ DiagnosisErrors(v.a[i].o) # <<>>
             THEN <<FieldError(k, "item")>>
        ELSE <<>>

\* name: List[RequestData] = Field(default_factory=list)
RequestDataList(o, k) ==
    LET v == Get(o, k)
    IN  IF v.t = "absent" THEN <<>>
        ELSE IF v.t = "null" THEN <<FieldError(k, "none")>>
        ELSE IF v.t # "arr" THEN <<FieldError(k, "type")>>
        ELSE IF \E i \in 1..Len(v.a) :
                    v.a[i].t # "obj" \/ RequestDataErrors(v.a[i].o) # <<>>
             THEN <<FieldError(k, "item")>>
        ELSE <<>>

\* the value a List field takes in the model instance
ListValue(o, k) ==
    LET v == Get(o, k) IN IF v.t = "arr" THEN v.a ELSE <<>>

\* class OCRResponse: the errors of OCRResponse(**o)
OCRResponseErrors(o) ==
    RequiredStr(o, "status") \o OptionalStr(o, "text") \o OptionalStr(o, "error")

\* the OCRResponse instance of a body that validates
OCRResponse(o) ==
    [status |-> o.status.s,
     text   |-> OptionalValue(o, "text"),
     error  |-> OptionalValue(o, "error")]

\* class ProcessTextResponse
ProcessTextResponseErrors(o) ==
    RequiredStr(o, "status") \o DiagnosisList(o, "diagnoses")
      \o DiagnosisList(o, "procedures") \o OptionalStr(o, "request_id")
      \o OptionalStr(o, "error")

ProcessTextResponse(o) ==
    [status     |-> o.status.s,
     diagnoses  |-> ListValue(o, "diagnoses"),
     procedures |-> ListValue(o, "procedures"),
     request_id |-> OptionalValue(o, "request_id"),
     error      |-> OptionalValue(o, "error")]

\* class RequestsListResponse
RequestsListResponseErrors(o) ==
    RequestDataList(o, "requests") \o OptionalInt(o, "total")
      \o OptionalInt(o, "page") \o OptionalInt(o, "per_page")

RequestsListResponse(o) ==
    [requests |-> ListValue(o, "requests"),
     total    |-> OptionalValue(o, "total"),
     page     |-> OptionalValue(o, "page"),
     per_page |-> OptionalValue(o, "per_page")]

\* class APIError
APIErrorErrors(o) ==
    RequiredStr(o, "status") \o RequiredStr(o, "error") \o OptionalInt(o, "code")

APIError(o) ==
    [status |-> o.status.s, error |-> o.error.s, code |-> OptionalValue(o, "code")]

\* class ProcessTextRequest: text is a plain str, so every str is accepted
ProcessTextRequestErrors(text) == <<>>

\* process_request.dict()
ProcessTextRequestDict(text) == [text |-> text]

\* class OCRRequest: bytes, str and str, so every upload is accepted
OCRRequestErrors(file_content, filename, mime_type) == <<>>

----------------------------------------------------------------------------
(* Exceptions, messages, control flow *)

\* no exception
NoExc == [cls |-> "none", text |-> "", errs |-> <<>>]
\* an exception of class cls whose str() is text
Exc(cls, text) == [cls |-> cls, text |-> text, errs |-> <<>>]
\* pydantic's ValidationError listing errs
ValidationError(errs) == [cls |-> "ValidationError", text |-> "", errs |-> errs]

\* the classes an exception of class cls is an instance of (the except
\* clauses match on these)
Bases(cls) ==
    CASE cls = "ReadTimeout" ->
            {"ReadTimeout", "Timeout", "RequestException", "Exception"}
      [] cls = "ConnectTimeout" ->
            {"ConnectTimeout", "ConnectionError", "Timeout",
             "RequestException", "Exception"}
      [] cls = "ConnectionError" ->
            {"ConnectionError", "RequestException", "Exception"}
      [] cls = "TooManyRedirects" ->
            {"TooManyRedirects", "RequestException", "Exception"}
      [] cls = "JSONDecodeError" ->
            {"JSONDecodeError", "RequestException", "ValueError", "Exception"}
      [] cls = "ValidationError" ->
            {"ValidationError", "ValueError", "Exception"}
      [] cls = "TypeError" -> {"TypeError", "Exception"}
      [] OTHER -> {cls, "Exception"}

IsInstance(e, base) == e.cls # "none" /\ base \in Bases(e.cls)

\* one st.error / st.warning / st.json / st.success / st.info call: tmpl is
\* the literal part of the text, and code, text and errs what is formatted
\* into it
Msg(level, tmpl, code, text, errs) ==
    [level |-> level, tmpl |-> tmpl, code |-> code, text |-> text, errs |-> errs]
StError(tmpl, text) == Msg("error", tmpl, 0, text, <<>>)
StWarning(tmpl) == Msg("warning", tmpl, 0, "", <<>>)

\* where a block of code ends: by return (exc = NoExc) or by raising exc
Return(value, msgs) == [exc |-> NoExc, value |-> value, msgs |-> msgs]
Raise(e, msgs) == [exc |-> e, value |-> PyNone, msgs |-> msgs]

\* response.json()
ResponseJson(response) ==
    IF response.json.t = "notjson"
    THEN Raise(Exc("JSONDecodeError", "Expecting value"), <<>>)
    ELSE Return(response.json, <<>>)

\* data of Model(**data) must be a mapping
NotMapping == Exc("TypeError", "argument after ** must be a mapping")

----------------------------------------------------------------------------
(* Configuration and HTTP *)

OCR_ENDPOINT == "/ocr/scan"
PROCESS_ENDPOINT == "/code/create"
REQUESTS_ENDPOINT == "/code/list"
TIMEOUT == 30
HTTP_OK == 200

\* faulty variant: the header is built although no token is configured
get_auth_headers_always(token) ==
    [headers |-> {<<"Authorization", "Bearer " \o token>>}, msgs |-> <<>>]

\* get_auth_headers (the same in process_new_file.py and previous_requests.py)
get_auth_headers(token) ==
    IF token # ""
    THEN [headers |-> {<<"Authorization", "Bearer " \o token>>}, msgs |-> <<>>]
    ELSE [headers |-> {},
          msgs |-> <<StWarning("No authentication token found. Please set API_AUTH_TOKEN in your .env file.")>>]

\* one requests.post / requests.get call
HttpRequest(method, url, params, headers, body) ==
    [method |-> method, url |-> url, params |-> params, headers |-> headers,
     body |-> body, timeout |-> TIMEOUT]

\* what a client function did: the value it returned, the messages it
\* showed, the HTTP requests it issued and the exception that left it
Outcome(flow, reqs) ==
    [result |-> flow.value, msgs |-> flow.msgs, reqs |-> reqs, raised |-> flow.exc]

----------------------------------------------------------------------------
(* call_ocr_api *)

\* faulty variant: the text is returned without looking at the status
OcrTry200_textfirst(response) ==
    LET response_data == ResponseJson(response)
    IN  IF response_data.exc # NoExc THEN response_data
        ELSE IF response_data.value.t # "obj" THEN Raise(NotMapping, <<>>)
        ELSE LET o == response_data.value.o
                 errs == OCRResponseErrors(o)
             IN  IF errs # <<>> THEN Raise(ValidationError(errs), <<>>)
                 ELSE LET ocr_response == OCRResponse(o)
                      IN  IF ocr_response.text.t # "none"
                          THEN Return(PyText(ocr_response.text.c), <<>>)
                          ELSE IF ocr_response.status = "error"
                          THEN Return(PyNone,
                                 <<StError("OCR API Error: ", Fmt(ocr_response.error))>>)
                          ELSE Return(PyText(<<>>),
                                 <<StWarning("No text was extracted from the response")>>)

\* lines 56-71: the try block of the 200 branch
OcrTry200(response) ==
    LET response_data == ResponseJson(response)
    IN  IF response_data.exc # NoExc THEN response_data
        ELSE IF response_data.value.t # "obj" THEN Raise(NotMapping, <<>>)
        ELSE LET o == response_data.value.o
                 errs == OCRResponseErrors(o)
             IN  IF errs # <<>> THEN Raise(ValidationError(errs), <<>>)
                 ELSE LET ocr_response == OCRResponse(o)
                      IN  IF ocr_response.status = "error"
                          THEN Return(PyNone,
                                 <<StError("OCR API Error: ", Fmt(ocr_response.error))>>)
                          ELSE IF ocr_response.text.t = "none"
                          THEN Return(PyText(<<>>),
                                 <<StWarning("No text was extracted from the response")>>)
                          ELSE Return(PyText(ocr_response.text.c), <<>>)

\* lines 73-75: except ValidationError of the 200 branch
OcrExcept200(flow) ==
    IF IsInstance(flow.exc, "ValidationError")
    THEN Return(PyNone, flow.msgs \o
           <<Msg("error", "OCR Response validation error: ", 0, "", flow.exc.errs)>>)
    ELSE flow

\* faulty variant: a body that is not JSON is not caught where it is parsed
OcrNon200_reraise(response) ==
    LET error_data == ResponseJson(response)
    IN  IF error_data.exc # NoExc THEN error_data
        ELSE IF error_data.value.t = "obj" /\ APIErrorErrors(error_data.value.o) = <<>>
        THEN Return(PyNone,
               <<StError("OCR API Error: ", APIError(error_data.value.o).error)>>)
        ELSE Return(PyNone,
               <<Msg("error", "OCR API Error: {status_code} - {text}",
                     response.status_code, response.text, <<>>)>>)

\* lines 77-84: a response that is not 200
OcrNon200(response) ==
    LET error_data == ResponseJson(response)
        matches == /\ error_data.exc = NoExc
                   /\ error_data.value.t = "obj"
                   /\ APIErrorErrors(error_data.value.o) = <<>>
    IN  IF matches
        THEN Return(PyNone,
               <<StError("OCR API Error: ", APIError(error_data.value.o).error)>>)
        ELSE Return(PyNone,
               <<Msg("error", "OCR API Error: {status_code} - {text}",
                     response.status_code, response.text, <<>>)>>)

\* faulty variant: the final except Exception clause is missing
OcrExcept_nocatchall(flow) ==
    IF flow.exc = NoExc THEN flow
    ELSE IF IsInstance(flow.exc, "ValidationError")
    THEN Return(PyNone, flow.msgs \o
           <<Msg("error", "OCR Request validation error: ", 0, "", flow.exc.errs)>>)
    ELSE IF IsInstance(flow.exc, "Timeout")
    THEN Return(PyNone, flow.msgs \o <<StError("OCR API request timed out", "")>>)
    ELSE IF IsInstance(flow.exc, "ConnectionError")
    THEN Return(PyNone, flow.msgs \o
           <<StError("Connection error to OCR API: ", flow.exc.text)>>)
    ELSE flow

\* lines 86-97: the except clauses of the function, in their order
OcrExcept(flow) ==
    IF flow.exc = NoExc THEN flow
    ELSE IF IsInstance(flow.exc, "ValidationError")
    THEN Return(PyNone, flow.msgs \o
           <<Msg("error", "OCR Request validation error: ", 0, "", flow.exc.errs)>>)
    ELSE IF IsInstance(flow.exc, "Timeout")
    THEN Return(PyNone, flow.msgs \o <<StError("OCR API request timed out", "")>>)
    ELSE IF IsInstance(flow.exc, "ConnectionError")
    THEN Return(PyNone, flow.msgs \o
           <<StError("Connection error to OCR API: ", flow.exc.text)>>)
    ELSE IF IsInstance(flow.exc, "Exception")
    THEN Return(PyNone, flow.msgs \o
           <<StError("Unexpected error calling OCR API: ", flow.exc.text)>>)
    ELSE flow

\* prepend the messages shown before a block to the block's own
After(msgs, flow) == [flow EXCEPT !.msgs = msgs \o flow.msgs]

\* faulty variant: the request is sent a second time after an exception
call_ocr_api_retry(file_content, filename, token, net) ==
    LET mime_type == get_mime_type(filename)
        auth      == get_auth_headers(token)
        request   == HttpRequest("POST", OCR_ENDPOINT, {}, auth.headers,
                        [t |-> "files", file |-> <<filename, file_content, mime_type>>])
        body      == IF net.t = "raise" THEN Raise(net.e, auth.msgs)
                     ELSE IF net.status_code = HTTP_OK
                     THEN After(auth.msgs, OcrExcept200(OcrTry200(net)))
                     ELSE After(auth.msgs, OcrNon200(net))
    IN  Outcome(OcrExcept(body),
                IF net.t = "raise" THEN <<request, request>> ELSE <<request>>)

\* call_ocr_api(file_content, filename), with the configured token and with
\* net, what requests.post does: raise net.e, or return the response net
call_ocr_api(file_content, filename, token, net) ==
    LET mime_type == get_mime_type(filename)
        auth      == get_auth_headers(token)
        request   == HttpRequest("POST", OCR_ENDPOINT, {}, auth.headers,
                        [t |-> "files", file |-> <<filename, file_content, mime_type>>])
        body      == IF OCRRequestErrors(file_content, filename, mime_type) # <<>>
                     THEN Raise(ValidationError(
                            OCRRequestErrors(file_content, filename, mime_type)), <<>>)
                     ELSE IF net.t = "raise" THEN Raise(net.e, auth.msgs)
                     ELSE IF net.status_code = HTTP_OK
                     THEN After(auth.msgs, OcrExcept200(OcrTry200(net)))
                     ELSE After(auth.msgs, OcrNon200(net))
    IN  Outcome(OcrExcept(body), <<request>>)

----------------------------------------------------------------------------
(* call_process_api *)

\* faulty variant: every status but "error" is taken for a success
ProcessTry200_anystatus(response) ==
    LET response_data == ResponseJson(response)
    IN  IF response_data.exc # NoExc THEN response_data
        ELSE IF response_data.value.t # "obj" THEN Raise(NotMapping, <<>>)
        ELSE LET o == response_data.value.o
                 errs == ProcessTextResponseErrors(o)
             IN  IF errs # <<>> THEN Raise(ValidationError(errs), <<>>)
                 ELSE LET process_response == ProcessTextResponse(o)
                      IN  IF process_response.status = "error"
                          THEN Return(PyNone,
                                 <<StError("Process API Error: ",
                                           Fmt(process_response.error))>>)
                          ELSE Return(PyModel(process_response), <<>>)

\* lines 116-131: the try block of the 200 branch
ProcessTry200(response) ==
    LET response_data == ResponseJson(response)
    IN  IF response_data.exc # NoExc THEN response_data
        ELSE IF response_data.value.t # "obj" THEN Raise(NotMapping, <<>>)
        ELSE LET o == response_data.value.o
                 errs == ProcessTextResponseErrors(o)
             IN  IF errs # <<>> THEN Raise(ValidationError(errs), <<>>)
                 ELSE LET process_response == ProcessTextResponse(o)
                      IN  IF process_response.status = "error"
                          THEN Return(PyNone,
                                 <<StError("Process API Error: ",
                                           Fmt(process_response.error))>>)
                          ELSE IF process_response.status = "success"
                          THEN Return(PyModel(process_response), <<>>)
                          ELSE Return(PyNone,
                                 <<StError("Process API returned unexpected status: ",
                                           process_response.status)>>)

\* lines 133-135
ProcessExcept200(flow) ==
    IF IsInstance(flow.exc, "ValidationError")
    THEN Return(PyNone, flow.msgs \o
           <<Msg("error", "Process Response validation error: ", 0, "", flow.exc.errs)>>)
    ELSE flow

\* lines 137-144
ProcessNon200(response) ==
    LET error_data == ResponseJson(response)
        matches == /\ error_data.exc = NoExc
                   /\ error_data.value.t = "obj"
                   /\ APIErrorErrors(error_data.value.o) = <<>>
    IN  IF matches
        THEN Return(PyNone,
               <<StError("Process API Error: ", APIError(error_data.value.o).error)>>)
        ELSE Return(PyNone,
               <<Msg("error", "Process API error: {status_code} - {text}",
                     response.status_code, response.text, <<>>)>>)

\* lines 146-151: the except clauses of the function
ProcessExcept(flow) ==
    IF flow.exc = NoExc THEN flow
    ELSE IF IsInstance(flow.exc, "ValidationError")
    THEN Return(PyNone, flow.msgs \o
           <<Msg("error", "Process Request validation error: ", 0, "", flow.exc.errs)>>)
    ELSE IF IsInstance(flow.exc, "Exception")
    THEN Return(PyNone, flow.msgs \o
           <<StError("Error calling process API: ", flow.exc.text)>>)
    ELSE flow

\* call_process_api(text)
call_process_api(text, token, net) ==
    LET auth    == get_auth_headers(token)
        headers == auth.headers \cup {<<"Content-Type", "application/json">>}
        request == HttpRequest("POST", PROCESS_ENDPOINT, {}, headers,
                      [t |-> "json", json |-> ProcessTextRequestDict(text)])
    IN  IF ProcessTextRequestErrors(text) # <<>>
        THEN Outcome(ProcessExcept(
               Raise(ValidationError(ProcessTextRequestErrors(text)), <<>>)), <<>>)
        ELSE Outcome(ProcessExcept(
               IF net.t = "raise" THEN Raise(net.e, auth.msgs)
               ELSE IF net.status_code = HTTP_OK
               THEN After(auth.msgs, ProcessExcept200(ProcessTry200(net)))
               ELSE After(auth.msgs, ProcessNon200(net))), <<request>>)

----------------------------------------------------------------------------
(* get_requests_data *)

\* lines 34-38
RequestsTry200(response) ==
    LET response_data == ResponseJson(response)
    IN  IF response_data.exc # NoExc THEN response_data
        ELSE IF response_data.value.t # "obj" THEN Raise(NotMapping, <<>>)
        ELSE LET o == response_data.value.o
                 errs == RequestsListResponseErrors(o)
             IN  IF errs # <<>> THEN Raise(ValidationError(errs), <<>>)
                 ELSE Return(PyModel(RequestsListResponse(o)), <<>>)

\* lines 40-44
RequestsExcept200(flow, response) ==
    IF IsInstance(flow.exc, "ValidationError")
    THEN Return(PyNone, flow.msgs \o
           << Msg("error", "Requests response validation error: ", 0, "", flow.exc.errs),
              StError("Raw response data:", ""),
              Msg("json", "", 0, response.text, <<>>) >>)
    ELSE flow

\* lines 46-53
RequestsNon200(response) ==
    LET error_data == ResponseJson(response)
        matches == /\ error_data.exc = NoExc
                   /\ error_data.value.t = "obj"
                   /\ APIErrorErrors(error_data.value.o) = <<>>
    IN  IF matches
        THEN Return(PyNone,
               <<StError("Requests API Error: ", APIError(error_data.value.o).error)>>)
        ELSE Return(PyNone,
               <<Msg("error", "Requests API error: {status_code} - {text}",
                     response.status_code, response.text, <<>>)>>)

\* lines 55-57
RequestsExcept(flow) ==
    IF flow.exc = NoExc THEN flow
    ELSE IF IsInstance(flow.exc, "Exception")
    THEN Return(PyNone, flow.msgs \o
           <<StError("Error fetching requests: ", flow.exc.text)>>)
    ELSE flow

\* faulty variant: the filter is always sent
RequestsParamsAlways(request_id_filter) ==
    {<<"request_id", request_id_filter>>}

\* lines 25-27: the query parameters
RequestsParams(request_id_filter) ==
    IF Truthy(request_id_filter)
    THEN {<<"request_id", request_id_filter>>}
    ELSE {}

\* get_requests_data(request_id_filter)
get_requests_data(request_id_filter, token, net) ==
    LET params  == RequestsParams(request_id_filter)
        auth    == get_auth_headers(token)
        request == HttpRequest("GET", REQUESTS_ENDPOINT, params, auth.headers,
                      [t |-> "none"])
    IN  Outcome(RequestsExcept(
          IF net.t = "raise" THEN Raise(net.e, auth.msgs)
          ELSE IF net.status_code = HTTP_OK
          THEN After(auth.msgs, RequestsExcept200(RequestsTry200(net), net))
          ELSE After(auth.msgs, RequestsNon200(net))), <<request>>)

----------------------------------------------------------------------------
(* Inputs: file names, texts, and what the remote end may answer *)

\* the upper-case form of a lower-case letter
UpperChar(c) ==
    IF \E u \in UpperCase : LowerChar(u) = c
    THEN CHOOSE u \in UpperCase : LowerChar(u) = c
    ELSE c

\* every way to write s in upper and lower case
CaseVariants(s) ==
    { [i \in 1..Len(s) |-> IF up[i] THEN UpperChar(s[i]) ELSE s[i]] :
        up \in [1..Len(s) -> BOOLEAN] }

\* extensions that are not keys of mime_types
OtherExtensions ==
    { <<>>, <<"t","x","t">>, <<"p","d","f","x">>, <<"p","d">>, <<"j","p","e">>,
      <<"d","f">>, <<"p","d","f"," ">> }

Extensions ==
    UNION { CaseVariants(kv[1]) : kv \in mime_types }
      \cup UNION { CaseVariants(e) : e \in OtherExtensions }

\* what precedes the extension: up to MaxStem segments, each followed by a dot
RECURSIVE Stems(_)
Stems(n) ==
    IF n = 0 THEN { <<>> }
    ELSE Stems(n - 1) \cup
         { st \o seg \o <<".">> :
             st \in Stems(n - 1),
             seg \in { <<"a">>, <<"p","d","f">>, <<"P","n","g">>, <<>> } }

Filenames == { st \o e : st \in Stems(MaxStem), e \in Extensions }

\* the file names the page-level model uploads
PageFilenames == { <<"a",".","p","d","f">>, <<"a",".","P","N","G">> }

Fever == <<"f","e","v","e","r">>

\* texts for call_process_api
Texts ==
    { <<>>, <<" ">>, <<" "," "," ">>, <<"\t","\n">>, Fever, <<" ">> \o Fever \o <<"\n">> }

\* filters for get_requests_data
Filters == { <<>>, <<"a","b","c">>, <<" ">> }

\* exceptions requests.post / requests.get may raise
ExceptionClasses ==
    {"ReadTimeout", "ConnectTimeout", "ConnectionError", "TooManyRedirects",
     "RuntimeError"}
ExceptionTexts == {"timed out", "boom"}
Raises ==
    { [t |-> "raise", e |-> Exc(c, x)] : c \in ExceptionClasses, x \in ExceptionTexts }

\* a response with a status code and a body; text is the body as sent
Response(status_code, json) ==
    [t |-> "resp", status_code |-> status_code, json |-> json,
     text |-> IF json.t = "notjson" THEN "<html>Bad Gateway</html>" ELSE ToString(json)]

StatusCodes == {200, 401, 500}

\* status values of a body: absent, the two of the contract, another string,
\* and a value that is no string
Statuses == { JAbsent, JStr("success"), JStr("error"), JStr("pending"), JArr(<<>>) }

\* bodies shaped like APIError, and near misses
APIErrorObjects ==
    { [status |-> s, error |-> e, code |-> c] :
        s \in { JAbsent, JStr("error"), JNull },
        e \in { JAbsent, JNull, JStr("quota exceeded"), JArr(<<>>) },
        c \in { JAbsent, JInt(42), JArr(<<>>) } }

\* bodies that are no JSON object
NonObjects == { NotJson, JArr(<<>>), JNull }

\* bodies for /ocr/scan
OCRObjects ==
    { [status |-> s, text |-> x, error |-> e] :
        s \in Statuses,
        x \in { JAbsent, JNull, JText(<<>>), JText(Fever), JText(<<" ">>), JArr(<<>>) },
        e \in { JAbsent, JStr("scan failed"), JArr(<<>>) } }

OcrNets ==
    Raises \cup
    { Response(c, j) : c \in StatusCodes,
        j \in NonObjects \cup { JObj(o) : o \in OCRObjects \cup APIErrorObjects } }

\* a Diagnosis / Procedure item that validates, and others that do not
GoodItem ==
    JObj([original_text |-> JStr("fiebre"), english_translation |-> JStr("fever"),
          icd10_code |-> JStr("R50.9"), confidence |-> JNum("0.92")])
BadItems ==
    { JObj([original_text |-> JStr("fiebre"), english_translation |-> JStr("fever"),
            confidence |-> JNum("0.92")]),
      JStr("fever") }

\* the sequences over S of length at most n
RECURSIVE SeqsUpTo(_, _)
SeqsUpTo(S, n) ==
    IF n = 0 THEN { <<>> }
    ELSE SeqsUpTo(S, n - 1) \cup
         { Append(q, x) : q \in { r \in SeqsUpTo(S, n - 1) : Len(r) = n - 1 }, x \in S }

ItemLists == { JArr(a) : a \in SeqsUpTo({GoodItem} \cup BadItems, MaxItems) }

\* bodies for /code/create
ProcessObjects ==
    { [status |-> s, diagnoses |-> d, procedures |-> p, request_id |-> r, error |-> e] :
        s \in Statuses,
        d \in ItemLists \cup { JAbsent, JNull, JStr("none") },
        p \in { JAbsent, JArr(<<GoodItem>>) },
        r \in { JAbsent, JStr("req-1") },
        e \in { JAbsent, JStr("model overloaded") } }

ProcessNets ==
    Raises \cup
    { Response(c, j) : c \in StatusCodes,
        j \in NonObjects \cup { JObj(o) : o \in ProcessObjects \cup APIErrorObjects } }

\* a RequestData record that validates, and others that do not
GoodRequest ==
    JObj([request_id |-> JStr("req-1"), type |-> JStr("code"), source |-> JStr("api"),
          agent_id |-> JStr("a1"), status |-> JStr("pending"),
          created_at |-> JStr("2025-01-01"), output_data |-> JObj(<<>>)])
BadRequests ==
    { JObj([request_id |-> JStr("req-2"), type |-> JStr("code")]), JNull }

RequestLists == { JArr(a) : a \in SeqsUpTo({GoodRequest} \cup BadRequests, MaxItems) }

\* bodies for /code/list
RequestsObjects ==
    { [requests |-> r, total |-> n] :
        r \in RequestLists \cup { JAbsent, JNull, JStr("none") },
        n \in { JAbsent, JInt(3), JArr(<<>>) } }

RequestsNets ==
    Raises \cup
    { Response(c, j) : c \in StatusCodes,
        j \in NonObjects \cup { JObj(o) : o \in RequestsObjects \cup APIErrorObjects } }

ApiTokens == { "", "tok" }

----------------------------------------------------------------------------
(* The record of a client call *)

\* no call was made
NoOutcome == Outcome(Return(PyNone, <<>>), <<>>)
NoCall == [op |-> "none", arg |-> <<>>, net |-> [t |-> "none"], done |-> TRUE,
           out |-> NoOutcome]
\* a call about to be made, and the same call once it has returned
Pending(op, arg, net) ==
    [op |-> op, arg |-> arg, net |-> net, done |-> FALSE, out |-> NoOutcome]
Done(op, arg, net, out) ==
    [op |-> op, arg |-> arg, net |-> net, done |-> TRUE, out |-> out]

----------------------------------------------------------------------------
(* ApiSpec: the client functions called directly *)

ApiInit ==
    /\ app_token = "secret"
    /\ api_token \in ApiTokens
    /\ authenticated = FALSE
    /\ page = "process"
    /\ ocr_text = <<>>
    /\ ui = <<>>
    /\ shown = "none"
    /\ submitted = <<>>
    /\ call \in
         { Pending("mime", f, [t |-> "none"]) : f \in Filenames }
           \cup { Pending("ocr", [file_content |-> "%PDF", filename |-> f], n) :
                    f \in PageFilenames, n \in OcrNets }
           \cup { Pending("process", x, n) : x \in Texts, n \in ProcessNets }
           \cup { Pending("list", x, n) : x \in Filters, n \in RequestsNets }

ApiFrame ==
    UNCHANGED <<app_token, api_token, authenticated, page, ocr_text, ui,
                shown, submitted>>

ApiGetMimeType ==
    /\ call.op = "mime" /\ ~call.done
    /\ call' = Done("mime", call.arg, call.net,
                    Outcome(Return(PyStr(get_mime_type(call.arg)), <<>>), <<>>))
    /\ ApiFrame

ApiCallOcr ==
    /\ call.op = "ocr" /\ ~call.done
    /\ call' = Done("ocr", call.arg, call.net,
                    call_ocr_api(call.arg.file_content, call.arg.filename,
                                 api_token, call.net))
    /\ ApiFrame

ApiCallProcess ==
    /\ call.op = "process" /\ ~call.done
    /\ call' = Done("process", call.arg, call.net,
                    call_process_api(call.arg, api_token, call.net))
    /\ ApiFrame

ApiGetRequests ==
    /\ call.op = "list" /\ ~call.done
    /\ call' = Done("list", call.arg, call.net,
                    get_requests_data(call.arg, api_token, call.net))
    /\ ApiFrame

ApiNext == ApiGetMimeType \/ ApiCallOcr \/ ApiCallProcess \/ ApiGetRequests

ApiSpec == ApiInit /\ [][ApiNext]_vars

----------------------------------------------------------------------------
(* Spec: the program as the user drives it.  Every action is one run of   *)
(* main.py, started by the widget the action is named after.               *)

\* what the remote end answers in the page-level model: one answer of each
\* kind the client functions tell apart
PageRaises ==
    { [t |-> "raise", e |-> Exc("ReadTimeout", "timed out")],
      [t |-> "raise", e |-> Exc("ConnectionError", "boom")],
      [t |-> "raise", e |-> Exc("RuntimeError", "boom")] }

PageOcrNets ==
    PageRaises \cup
    { Response(200, JObj([status |-> JStr("success"), text |-> JText(Fever)])),
      Response(200, JObj([status |-> JStr("success"), text |-> JText(<<" ">>)])),
      Response(200, JObj([status |-> JStr("success"), text |-> JText(<<>>)])),
      Response(200, JObj([status |-> JStr("success")])),
      Response(200, JObj([status |-> JStr("success"), text |-> JNull])),
      Response(200, JObj([status |-> JStr("error"), error |-> JStr("scan failed"),
                          text |-> JText(Fever)])),
      Response(200, JObj([status |-> JStr("pending"), text |-> JText(Fever)])),
      Response(200, JObj([text |-> JText(Fever)])),
      Response(200, NotJson),
      Response(200, JArr(<<>>)),
      Response(500, JObj([status |-> JStr("error"), error |-> JStr("quota exceeded")])),
      Response(500, NotJson) }

PageProcessNets ==
    PageRaises \cup
    { Response(200, JObj([status |-> JStr("success"), diagnoses |-> JArr(<<GoodItem>>),
                          procedures |-> JArr(<<>>), request_id |-> JStr("req-1")])),
      Response(200, JObj([status |-> JStr("error"), error |-> JStr("model overloaded")])),
      Response(200, JObj([status |-> JStr("pending")])),
      Response(200, JObj([status |-> JStr("success"), diagnoses |-> JStr("none")])),
      Response(200, NotJson),
      Response(401, JObj([status |-> JStr("error"), error |-> JStr("quota exceeded")])),
      Response(500, NotJson) }

PageRequestsNets ==
    PageRaises \cup
    { Response(200, JObj([requests |-> JArr(<<GoodRequest>>), total |-> JInt(3)])),
      Response(200, JObj([requests |-> JArr(<<>>)])),
      Response(200, JObj([requests |-> JStr("none")])),
      Response(200, NotJson),
      Response(500, JObj([status |-> JStr("error"), error |-> JStr("quota exceeded")])),
      Response(500, NotJson) }

\* what a user may type into the login form
TokenInputs == { "secret", "wrong", "" }

Init ==
    /\ app_token \in { "", "secret" }
    /\ api_token \in ApiTokens
    /\ authenticated = FALSE
    /\ page = "process"
    /\ ocr_text = <<>>           \* main.py lines 18-19
    /\ call = NoCall
    /\ ui = <<>>
    /\ shown = "none"
    /\ submitted = <<>>

Config == <<app_token, api_token>>

\* check_authentication lines 12-14: without APP_ACCESS_TOKEN every run stops
NotConfigured ==
    /\ app_token = ""
    /\ ui' = <<StError("Application access token not configured. Please contact the administrator.", "")>>
    /\ call' = NoCall
    /\ shown' = "stopped"       \* st.stop()
    /\ submitted' = <<>>
    /\ UNCHANGED <<Config, authenticated, page, ocr_text>>

\* faulty variant: any non-empty token opens the session
Login_any(token_input) ==
    /\ app_token # ""
    /\ ~authenticated
    /\ IF token_input # ""
       THEN /\ authenticated' = TRUE
            /\ ui' = <<>>
            /\ shown' = page
       ELSE /\ authenticated' = authenticated
            /\ ui' = <<StError("Invalid access token. Please try again.", "")>>
            /\ shown' = "login"
    /\ submitted' = <<token_input>>
    /\ call' = NoCall
    /\ UNCHANGED <<Config, page, ocr_text>>

\* check_authentication lines 24-35: the login form is submitted
Login(token_input) ==
    /\ app_token # ""
    /\ ~authenticated
    /\ IF token_input = app_token
       THEN /\ authenticated' = TRUE
            /\ ui' = <<>>        \* st.rerun(): the page is drawn afresh
            /\ shown' = page
       ELSE /\ authenticated' = authenticated
            /\ ui' = <<StError("Invalid access token. Please try again.", "")>>
            /\ shown' = "login"  \* main returns at line 24
    /\ submitted' = <<token_input>>
    /\ call' = NoCall
    /\ UNCHANGED <<Config, page, ocr_text>>

\* faulty variant: logging out also forgets the OCR text
Logout_clears ==
    /\ app_token # ""
    /\ authenticated
    /\ authenticated' = FALSE
    /\ page' = "process"
    /\ ocr_text' = <<>>
    /\ call' = NoCall
    /\ ui' = <<>>
    /\ shown' = "login"
    /\ submitted' = <<>>
    /\ UNCHANGED Config

\* show_logout_button: the Logout button is pressed; the rerun shows the
\* login form, and the sidebar selectbox, not drawn, loses its value
Logout ==
    /\ app_token # ""
    /\ authenticated
    /\ authenticated' = FALSE
    /\ page' = "process"
    /\ call' = NoCall
    /\ ui' = <<>>
    /\ shown' = "login"
    /\ submitted' = <<>>
    /\ UNCHANGED <<Config, ocr_text>>

\* main lines 23-40: the page function p runs in this rerun
PageRuns(p) == app_token # "" /\ authenticated /\ page = p

\* faulty variant: the session text is overwritten whatever call_ocr_api returned
RunOcrButton_always(text, out) ==
    IF out.result.t = "str"
    THEN [ocr_text |-> out.result.c, ui |-> <<>>]
    ELSE [ocr_text |-> <<>>,
          ui |-> <<StError("OCR processing failed - no text extracted", "")>>]

\* show_text_processing_page lines 178-187: what the Run OCR button does
\* with the value call_ocr_api returned
RunOcrButton(text, out) ==
    IF out.result.t = "str" /\ Truthy(out.result.c)
    THEN [ocr_text |-> out.result.c,
          ui |-> << Msg("success", "OCR completed successfully!", 0, "", <<>>),
                    Msg("info", "Text extracted successfully! ({} characters)",
                        Len(out.result.c), "", <<>>) >>]
    ELSE [ocr_text |-> text,
          ui |-> <<StError("OCR processing failed - no text extracted", "")>>]

\* the Run OCR button with an uploaded file
RunOcr(filename, net) ==
    /\ PageRuns("process")
    /\ LET arg == [file_content |-> "%PDF", filename |-> filename]
           out == call_ocr_api(arg.file_content, arg.filename, api_token, net)
           end == RunOcrButton(ocr_text, out)
       IN  /\ call' = Done("ocr", arg, net, out)
           /\ ocr_text' = end.ocr_text
           /\ ui' = end.ui
    /\ shown' = "process"
    /\ submitted' = <<>>
    /\ UNCHANGED <<Config, authenticated, page>>

\* show_text_processing_page lines 212-260: what the Process Text button
\* shows for the value call_process_api returned
ProcessTextButton(out) ==
    IF out.result.t = "model"
    THEN << Msg("success", "Text processed successfully!", 0, "", <<>>),
            Msg("info", "Found {} diagnoses and {} procedures",
                Len(out.result.m.diagnoses), "", <<>>) >>
    ELSE <<StError("Text processing failed", "")>>

\* the Process Text button; it is disabled while the text area is blank.  The
\* text area starts from ocr_text and the user may replace its content, so
\* text_content is any text
ProcessText(text_content, net) ==
    /\ PageRuns("process")
    /\ Truthy(Strip(text_content))
    /\ LET out == call_process_api(text_content, api_token, net)
       IN  /\ call' = Done("process", text_content, net, out)
           /\ ui' = ProcessTextButton(out)
    /\ shown' = "process"
    /\ submitted' = <<>>
    /\ UNCHANGED <<Config, authenticated, page, ocr_text>>

\* any other widget of the process page (the radio, the uploader, the text
\* area): the page is drawn again and no button is down
EditInputs ==
    /\ PageRuns("process")
    /\ call' = NoCall
    /\ ui' = <<>>
    /\ shown' = "process"
    /\ submitted' = <<>>
    /\ UNCHANGED <<Config, authenticated, page, ocr_text>>

\* show_previous_requests_page lines 79-87: what the page shows for the value
\* get_requests_data returned
PreviousRequestsPage(out) ==
    IF out.result.t = "none" THEN <<>>
    ELSE IF Len(out.result.m.requests) = 0
    THEN <<Msg("info", "No requests found matching the criteria.", 0, "", <<>>)>>
    ELSE <<Msg("subheader", "Found {} request(s)", Len(out.result.m.requests), "", <<>>)>>

\* the sidebar selects Previous Requests: the page runs with an empty filter
\* and, auto_refresh being unset, fetches
SelectPreviousRequests(net) ==
    /\ PageRuns("process")
    /\ page' = "previous"
    /\ LET out == get_requests_data(<<>>, api_token, net)
       IN  /\ call' = Done("list", <<>>, net, out)
           /\ ui' = PreviousRequestsPage(out)
    /\ shown' = "previous"
    /\ submitted' = <<>>
    /\ UNCHANGED <<Config, authenticated, ocr_text>>

\* the Refresh button, or a new filter: the page runs and fetches
RefreshRequests(request_id_filter, net) ==
    /\ PageRuns("previous")
    /\ LET out == get_requests_data(request_id_filter, api_token, net)
       IN  /\ call' = Done("list", request_id_filter, net, out)
           /\ ui' = PreviousRequestsPage(out)
    /\ shown' = "previous"
    /\ submitted' = <<>>
    /\ UNCHANGED <<Config, authenticated, page, ocr_text>>

\* the sidebar selects Process new file
SelectProcessPage ==
    /\ PageRuns("previous")
    /\ page' = "process"
    /\ call' = NoCall
    /\ ui' = <<>>
    /\ shown' = "process"
    /\ submitted' = <<>>
    /\ UNCHANGED <<Config, authenticated, ocr_text>>

Next ==
    \/ NotConfigured
    \/ \E token_input \in TokenInputs : Login(token_input)
    \/ Logout
    \/ \E f \in PageFilenames, n \in PageOcrNets : RunOcr(f, n)
    \/ \E x \in Texts, n \in PageProcessNets : ProcessText(x, n)
    \/ EditInputs
    \/ \E n \in PageRequestsNets : SelectPreviousRequests(n)
    \/ \E x \in Filters, n \in PageRequestsNets : RefreshRequests(x, n)
    \/ SelectProcessPage

Spec == Init /\ [][Next]_vars

----------------------------------------------------------------------------
(* Vocabulary of the properties *)

\* the call op has returned
Finished(op) == call.op = op /\ call.done

\* the st.error messages of a call, in order
ErrorMsgs(out) == SelectSeq(out.msgs, LAMBDA m : m.level = "error")

\* the call failed: it returned None
Failed(out) == out.result.t = "none"

\* the remote end answered with status code 200 and a JSON object
Answered200 ==
    /\ call.net.t = "resp"
    /\ call.net.status_code = 200
    /\ call.net.json.t = "obj"

\* the remote end answered with another status code
AnsweredNon200 == call.net.t = "resp" /\ call.net.status_code # 200

\* the JSON object of the answer
Body == call.net.json.o

\* the value under key k of the body is a JSON string
IsString(o, k) == k \in DOMAIN o /\ o[k].t = "str"
\* the value under key k is missing, null or of JSON type ty
MissingOr(o, k, ty) == k \notin DOMAIN o \/ o[k].t \in {"absent", "null", ty}

----------------------------------------------------------------------------
(* C8: get_mime_type *)

\* the table as the specification states it
ClaimedMimeTable ==
    { <<<<"p","d","f">>, "application/pdf">>, <<<<"j","p","g">>, "image/jpeg">>,
      <<<<"j","p","e","g">>, "image/jpeg">>, <<<<"p","n","g">>, "image/png">>,
      <<<<"t","i","f","f">>, "image/tiff">>, <<<<"t","i","f">>, "image/tiff">>,
      <<<<"g","i","f">>, "image/gif">>, <<<<"w","e","b","p">>, "image/webp">>,
      <<<<"b","m","p">>, "image/bmp">> }

\* the part of f after its last dot (all of f without a dot) is ext in some
\* letter case
HasExtension(f, ext) ==
    LET n == Len(f)
        m == Len(ext)
    IN  /\ n >= m
        /\ \A i \in 1..m : f[n - m + i] \in {ext[i], UpperChar(ext[i])}
        /\ n = m \/ f[n - m] = "."

\* C8: get_mime_type maps a file name whose last dot-separated segment is,
\* in any letter case, pdf, jpg, jpeg, png, tiff, tif, gif, webp or bmp to the
\* MIME type of the table, and every other file name to
\* application/octet-stream.
C8_MimeByExtension ==
    Finished("mime") =>
        LET f == call.arg
            mime == call.out.result.s
        IN  /\ \A kv \in ClaimedMimeTable : HasExtension(f, kv[1]) => mime = kv[2]
            /\ (\A kv \in ClaimedMimeTable : ~HasExtension(f, kv[1]))
                  => mime = "application/octet-stream"

\* a mixed-case known extension after a stem has been resolved
C8_Witness ==
    /\ Finished("mime")
    /\ call.arg = <<"a", ".", "J", "p", "E", "g">>
    /\ call.out.result.s = "image/jpeg"

----------------------------------------------------------------------------
(* C9: the request_id query parameter *)

\* C9: get_requests_data issues its GET with the query parameter
\* request_id=<filter> when the filter is a non-empty string, and with no
\* request_id parameter when the filter is empty.
C9_FilterParam ==
    Finished("list") =>
        LET sent == call.out.reqs
        IN  /\ Len(sent) = 1
            /\ sent[1].url = "/code/list"
            /\ IF Len(call.arg) > 0
               THEN sent[1].params = {<<"request_id", call.arg>>}
               ELSE \A kv \in sent[1].params : kv[1] # "request_id"

\* the filter "abc" was sent as request_id=abc
C9_Witness ==
    /\ Finished("list")
    /\ call.arg = <<"a", "b", "c">>
    /\ <<"request_id", <<"a", "b", "c">>>> \in call.out.reqs[1].params

----------------------------------------------------------------------------
(* C5: responses that are not 200 *)

\* the body is a JSON object with string status and error, and a code that
\* is an integer when it is there
MatchesAPIError ==
    /\ call.net.json.t = "obj"
    /\ IsString(Body, "status")
    /\ IsString(Body, "error")
    /\ MissingOr(Body, "code", "int")

\* C5: for each of the three calls, a non-200 response whose body matches
\* APIError shows the body's error string; any other non-200 response shows
\* the status code and the raw body text; either way the call shows exactly
\* that one error, returns None and lets no exception escape.
C5_Non200 ==
    (call.op \in {"ocr", "process", "list"} /\ call.done /\ AnsweredNon200) =>
        LET errors == ErrorMsgs(call.out)
        IN  /\ Failed(call.out)
            /\ call.out.raised = NoExc
            /\ Len(errors) = 1
            /\ IF MatchesAPIError
               THEN errors[1].text = Body.error.s /\ errors[1].code = 0
               ELSE /\ errors[1].code = call.net.status_code
                    /\ errors[1].text = call.net.text

\* a 500 response whose body is not JSON was reported by code and raw text
C5_Witness ==
    /\ Finished("list")
    /\ AnsweredNon200
    /\ call.net.json.t = "notjson"
    /\ ErrorMsgs(call.out)[1].code = 500

----------------------------------------------------------------------------
(* C1: blank text and call_process_api *)

\* C1 as stated: for a text that is empty or only whitespace, call_process_api
\* returns a failure and issues no HTTP request.
C1_BlankRejectedBeforeRequest ==
    (Finished("process") /\ Strip(call.arg) = <<>>) =>
        /\ Failed(call.out)
        /\ call.out.reqs = <<>>

----------------------------------------------------------------------------
(* C3: a 200 response with status "error" *)

\* the body has status "error"
StatusIsError == IsString(Body, "status") /\ Body.status.s = "error"

\* the body passes the validation of the call's response model
BodyValidates ==
    IF call.op = "ocr" THEN OCRResponseErrors(Body) = <<>>
    ELSE ProcessTextResponseErrors(Body) = <<>>

\* the call showed exactly the error message text
ShowsOnly(text) ==
    LET errors == ErrorMsgs(call.out)
    IN  Len(errors) = 1 /\ errors[1].text = text /\ errors[1].errs = <<>>

\* C3 as stated: every 200 response to call_ocr_api or call_process_api whose
\* body has status "error" makes the call show the body's error string and
\* return None, whatever else the body carries.
C3_ErrorStatusAlways ==
    (call.op \in {"ocr", "process"} /\ call.done /\ Answered200 /\ StatusIsError) =>
        /\ Failed(call.out)
        /\ IsString(Body, "error") => ShowsOnly(Body.error.s)

\* C3 as amended: every such response makes the call return None; when the
\* body also validates against the response model, the one error shown is
\* the body's error string (the text "None" when the body has no error
\* string), and otherwise it is the validation error.
C3_ErrorStatusValidated ==
    (call.op \in {"ocr", "process"} /\ call.done /\ Answered200 /\ StatusIsError) =>
        /\ Failed(call.out)
        /\ call.out.raised = NoExc
        /\ IF BodyValidates
           THEN IF IsString(Body, "error")
                THEN ShowsOnly(Body.error.s)
                ELSE ShowsOnly("None")
           ELSE /\ Len(ErrorMsgs(call.out)) = 1
                /\ ErrorMsgs(call.out)[1].errs # <<>>

\* an OCR body with status "error", an error string and a populated text
\* gave None and the error string
C3_Witness ==
    /\ Finished("ocr")
    /\ Answered200
    /\ StatusIsError
    /\ Body.text = JText(Fever)
    /\ IsString(Body, "error")
    /\ Failed(call.out)
    /\ ShowsOnly("scan failed")

----------------------------------------------------------------------------
(* C4: a status outside {success, error} *)

\* C4 as stated: a 200 response to call_ocr_api or call_process_api whose
\* status is a string other than "success" and "error" is a failure: the
\* call returns None and shows an error.
C4_OtherStatusFails ==
    ( /\ call.op \in {"ocr", "process"} /\ call.done /\ Answered200
      /\ IsString(Body, "status")
      /\ Body.status.s \notin {"success", "error"} ) =>
        /\ Failed(call.out)
        /\ Len(ErrorMsgs(call.out)) >= 1

----------------------------------------------------------------------------
(* C6: transport failures of call_process_api *)

\* timeouts and connection failures
TransportClasses == {"ReadTimeout", "ConnectTimeout", "ConnectionError"}

\* a 200 answer that is an application error
ApplicationErrors ==
    { n \in ProcessNets :
        /\ n.t = "resp" /\ n.status_code = 200 /\ n.json.t = "obj"
        /\ ProcessTextResponseErrors(n.json.o) = <<>>
        /\ n.json.o.status.s = "error" }

\* exceptions that are no transport failure
OtherRaises == { n \in Raises : n.e.cls \notin TransportClasses }

\* C6 as stated: what call_process_api shows for a timeout or a connection
\* failure differs from what it shows for every application error and for
\* every other unexpected exception.
C6_TransportDistinct ==
    (Finished("process") /\ call.net.t = "raise"
        /\ call.net.e.cls \in TransportClasses) =>
        \A n \in ApplicationErrors \cup OtherRaises :
            ErrorMsgs(call_process_api(call.arg, api_token, n))
                # ErrorMsgs(call.out)

----------------------------------------------------------------------------
(* C10: one message per failure *)

\* C10 as stated: a call that fails shows exactly one error message, and no
\* call lets an exception escape.
C10_SingleMessage ==
    (call.op \in {"ocr", "process", "list"} /\ call.done) =>
        /\ call.out.raised = NoExc
        /\ Failed(call.out) => Len(ErrorMsgs(call.out)) = 1

\* the answer is a 200 JSON object that fails RequestsListResponse
ListValidationFailure ==
    /\ call.op = "list"
    /\ Answered200
    /\ RequestsListResponseErrors(Body) # <<>>

\* C10 as amended: no call lets an exception escape, and a call that fails
\* shows exactly one error message, except get_requests_data on a 200
\* response that fails validation, which shows two (the validation error and
\* the heading "Raw response data:") followed by the raw body.
C10_MessagePerFailure ==
    (call.op \in {"ocr", "process", "list"} /\ call.done) =>
        /\ call.out.raised = NoExc
        /\ Failed(call.out) =>
             IF ListValidationFailure
             THEN /\ Len(ErrorMsgs(call.out)) = 2
                  /\ ErrorMsgs(call.out)[2].tmpl = "Raw response data:"
             ELSE Len(ErrorMsgs(call.out)) = 1

\* a 200 response whose body is not JSON ended in one message and None
C10_Witness ==
    /\ Finished("ocr")
    /\ call.net.t = "resp"
    /\ call.net.status_code = 200
    /\ call.net.json.t = "notjson"
    /\ Failed(call.out)
    /\ Len(ErrorMsgs(call.out)) = 1

----------------------------------------------------------------------------
(* C2: an OCR success without text *)

\* C2 as stated: a 200 response to the OCR call with status "success" and no
\* text gives the empty string as the result, and neither call_ocr_api nor
\* the page that called it shows an error.
C2_EmptyTextIsSuccess ==
    ( /\ Finished("ocr") /\ Answered200
      /\ IsString(Body, "status") /\ Body.status.s = "success"
      /\ MissingOr(Body, "text", "null")
      /\ MissingOr(Body, "error", "str") ) =>
        /\ call.out.result = PyText(<<>>)
        /\ ErrorMsgs(call.out) = <<>>
        /\ \A i \in 1..Len(ui) : ui[i].level # "error"

----------------------------------------------------------------------------
(* C7: a failed call leaves the retained OCR text alone *)

----------------------------------------------------------------------------
(* C11: a 200 response that fails validation *)

\* the answer is a 200 JSON object that fails the response model of the call
ValidationFailure ==
    /\ Answered200
    /\ CASE call.op = "ocr" -> OCRResponseErrors(Body) # <<>>
         [] call.op = "process" -> ProcessTextResponseErrors(Body) # <<>>
         [] call.op = "list" -> RequestsListResponseErrors(Body) # <<>>
         [] OTHER -> FALSE

\* C11 as stated: for each of the three calls, a 200 response whose JSON body
\* does not match the expected schema is reported with the validation
\* mismatch, and the raw response body is shown.
C11_ValidationShowsRawBody ==
    (call.op \in {"ocr", "process", "list"} /\ call.done /\ ValidationFailure) =>
        /\ \E i \in 1..Len(call.out.msgs) :
              /\ call.out.msgs[i].level = "error"
              /\ call.out.msgs[i].errs # <<>>
        /\ \E i \in 1..Len(call.out.msgs) :
              call.out.msgs[i].text = call.net.text

----------------------------------------------------------------------------
(* C12: one HTTP request per invocation *)

\* C12: in every rerun, and whatever came before it, an invocation of
\* call_ocr_api, call_process_api or get_requests_data issues exactly one
\* HTTP request, to its own endpoint, whether the remote end answers 200,
\* answers another code, answers a body that fails validation, times out or
\* refuses the connection: nothing is retried and no earlier result is
\* reused in place of a request.
C12_OneRequestPerCall ==
    (call.op \in {"ocr", "process", "list"} /\ call.done) =>
        /\ Len(call.out.reqs) = 1
        /\ call.out.reqs[1].url =
              CASE call.op = "ocr" -> "/ocr/scan"
                [] call.op = "process" -> "/code/create"
                [] call.op = "list" -> "/code/list"

\* a second OCR call in a session that holds the text of an earlier one timed
\* out after a single request
C12_Witness ==
    /\ Finished("ocr")
    /\ ocr_text = Fever
    /\ call.net.t = "raise"
    /\ call.net.e.cls = "ReadTimeout"
    /\ Len(call.out.reqs) = 1

----------------------------------------------------------------------------
(* C13: the Authorization header *)

\* the Authorization headers of a request
Authorization(request) == { kv \in request.headers : kv[1] = "Authorization" }

\* the configuration warning of get_auth_headers was shown
ConfigurationWarning ==
    \E i \in 1..Len(call.out.msgs) :
        /\ call.out.msgs[i].level = "warning"
        /\ call.out.msgs[i].tmpl =
             "No authentication token found. Please set API_AUTH_TOKEN in your .env file."

\* C13: every call to the remote service sends its request; the request
\* carries the header Authorization: Bearer <token> when API_AUTH_TOKEN is a
\* non-empty string, and then no configuration warning is shown; with
\* API_AUTH_TOKEN unset or empty the request carries no Authorization header
\* and the configuration warning is shown.
C13_BearerHeader ==
    (call.op \in {"ocr", "process", "list"} /\ call.done) =>
        /\ Len(call.out.reqs) = 1
        /\ IF api_token # ""
           THEN /\ Authorization(call.out.reqs[1])
                      = {<<"Authorization", "Bearer " \o api_token>>}
                /\ ~ConfigurationWarning
           ELSE /\ Authorization(call.out.reqs[1]) = {}
                /\ ConfigurationWarning

\* without a token, text was posted to /code/create with no Authorization
\* header and the warning was shown
C13_Witness ==
    /\ Finished("process")
    /\ api_token = ""
    /\ Len(call.out.reqs) = 1
    /\ call.out.reqs[1].headers = {<<"Content-Type", "application/json">>}
    /\ ConfigurationWarning

----------------------------------------------------------------------------
(* C14: the status of a process-text response *)

\* C14: a 200 response to call_process_api whose body validates and whose
\* status is neither "success" nor "error" gives None and the one error
\* "Process API returned unexpected status: <status>"; and whenever
\* call_process_api returns a ProcessTextResponse, the answer was a 200 whose
\* status is exactly "success", and that response is what is returned.
C14_UnexpectedStatus ==
    Finished("process") =>
        /\ ( /\ Answered200
             /\ ProcessTextResponseErrors(Body) = <<>>
             /\ Body.status.s \notin {"success", "error"} ) =>
               /\ Failed(call.out)
               /\ Len(ErrorMsgs(call.out)) = 1
               /\ ErrorMsgs(call.out)[1].tmpl = "Process API returned unexpected status: "
               /\ ErrorMsgs(call.out)[1].text = Body.status.s
        /\ ~Failed(call.out) =>
               /\ Answered200
               /\ IsString(Body, "status")
               /\ Body.status.s = "success"
               /\ call.out.result.t = "model"
               /\ call.out.result.m.status = "success"

\* a body that validates, with status "pending" and a diagnosis in it, gave
\* None and the unexpected-status error
C14_Witness ==
    /\ Finished("process")
    /\ Answered200
    /\ ProcessTextResponseErrors(Body) = <<>>
    /\ Body.status.s = "pending"
    /\ Body.diagnoses = JArr(<<GoodItem>>)
    /\ Failed(call.out)
    /\ ErrorMsgs(call.out)[1].text = "pending"

----------------------------------------------------------------------------
\* C15: across any sequence of reruns, a page function, and hence a call to
\* the remote service, runs only in a rerun whose session flag authenticated
\* is true; the flag starts false, becomes true only in a rerun whose login
\* form submitted a token equal to APP_ACCESS_TOKEN, becomes false on logout
\* and only then, and is never true while APP_ACCESS_TOKEN is unset.
PageFunctionRan == shown \in { "process", "previous" }

RemoteCallMade == call.op \in { "ocr", "process", "list" }

C15_Rerun ==
    /\ PageFunctionRan' => authenticated'
    /\ RemoteCallMade' => (PageFunctionRan' /\ authenticated')
    /\ (~authenticated /\ authenticated') =>
           (app_token # "" /\ submitted' = <<app_token>>)
    /\ (authenticated /\ ~authenticated') => Logout
    /\ Logout => ~authenticated'
    /\ app_token' = "" => ~authenticated'

C15_AuthenticatedGate == ~authenticated /\ [][C15_Rerun]_vars

\* the matching token was submitted, and a later rerun of the authenticated
\* session ran the previous-requests page, which called the service
C15_Witness ==
    /\ authenticated
    /\ app_token = "secret"
    /\ shown = "previous"
    /\ Finished("list")
    /\ Len(call.out.reqs) = 1

----------------------------------------------------------------------------
\* C16: ocr_text starts as the empty string and is written only by a Run OCR
\* rerun whose call returned a non-empty text, which it then holds; every
\* other rerun (an OCR call that returned the empty string or nothing, a
\* process-text call, a list call, a login, a logout) leaves it unchanged.
\* So ocr_text is always the empty string or the text of the most recent OCR
\* call that returned a non-empty one.
OcrReturnedText ==
    Finished("ocr") /\ call.out.result.t = "str" /\ Truthy(call.out.result.c)

C16_Rerun ==
    /\ ocr_text' # ocr_text => (shown' = "process" /\ OcrReturnedText')
    /\ OcrReturnedText' => ocr_text' = call'.out.result.c

C16_OcrTextWrittenOnlyByOcr == ocr_text = <<>> /\ [][C16_Rerun]_vars

\* an earlier OCR call returned "fever"; the latest one returned the empty
\* string and the session still holds "fever"
C16_Witness ==
    /\ Finished("ocr")
    /\ call.out.result.t = "str"
    /\ call.out.result.c = <<>>
    /\ ocr_text = Fever

====
